---- MODULE Spec2Model ----
(***************************************************************************)
(* Model of main.cpp: a B+ tree leaf kept in a binary file as a doubly     *)
(* linked list of fixed-size cells addressed by cursors, with an embedded  *)
(* free list.  The file is the only persistent state; every operation      *)
(* re-reads the header and the cells it needs and writes them back.        *)
(***************************************************************************)
EXTENDS Integers, Sequences, FiniteSets, TLC

\* ------------------------------------------------------------------ bounds
MaxCap == 3        \* largest capacity typed at "numero maximo de registros"

Capacidades == 0..MaxCap
\* keys the caller types: cin >> d.chave accepts any int, -1 included
Chaves == {-1, 1, 2}
\* names the caller can type
Nomes == {"A", "B"}
LIVRE == "[LIVRE]"
\* bytes a never-written char[30] can hold
Lixo == {"A", LIVRE}

\* --------------------------------------------------------------- the file
\* arq.cab : the header cell           (union celula, member cabecalho)
\* arq.nos : cells 1..tam as written   (union celula, member lista)
VARIABLES arq, falhou, ult, mapa, soOrdenado, nIns, removeu

vars == <<arq, falhou, ult, mapa, soOrdenado, nIns, removeu>>

cabecalho(quant, first, last, free, tam) ==
    [quant |-> quant, first |-> first, last |-> last, free |-> free, tam |-> tam]

lista(next, prev, chave, nome) ==
    [next |-> next, prev |-> prev, chave |-> chave, nome |-> nome]

dados(chave, nome) == [chave |-> chave, nome |-> nome]

\* A cursor that addresses a cell inside the file; a read at any other
\* cursor hits end of file and sets the stream's failbit.
Existe(f, pos) == pos \in DOMAIN f.nos

\* The state of one call in progress: the file as written so far and the
\* writes issued so far, in order (pos = 0 is the header cell).
inicio(f) == [arq |-> f, ws |-> <<>>]

\* arq.seekp(sizeof(celula) + (pos-1)*sizeof(celula)); arq.write(&l)
escreveNo(st, pos, l) ==
    [arq |-> [st.arq EXCEPT !.nos[pos] = l],
     ws  |-> Append(st.ws, [pos |-> pos, cel |-> l])]

\* arq.seekp(0); arq.write(&cab)
escreveCab(st, cab) ==
    [arq |-> [st.arq EXCEPT !.cab = cab],
     ws  |-> Append(st.ws, [pos |-> 0, cel |-> cab])]

\* What a call hands back: the file and the writes it made, the branch it
\* took (res) and whether one of its reads hit end of file (io).
fim(st, res, io) == [arq |-> st.arq, ws |-> st.ws, res |-> res, io |-> io]

\* Mutant of inicializar: the free cells are not chained to each other.
inicializar_semCadeia(n, g) ==
    [cab |-> cabecalho(0, -1, -1, 1, n),
     nos |-> [i \in 1..n |-> lista(-1, -1, -1, g)]]

\* inicializar(arq, n): header {0,-1,-1,1,n}, then cells 1..n chained
\* i -> i+1, the last one -> -1.  l.lista.reg.nome is never assigned, so
\* every cell carries the same indeterminate bytes g.
inicializar(n, g) ==
    [cab |-> cabecalho(0, -1, -1, 1, n),
     nos |-> [i \in 1..n |-> lista(IF i = n THEN -1 ELSE i + 1, -1, -1, g)]]

\* ----------------------------------------------------------------- search
\* Steps a scan loop may take before it is reported as not returning
\* ("trava"): one more than the number of cells, so any acyclic chain fits.
Passos(f) == Cardinality(DOMAIN f.nos) + 1

\* pesquisa(arq, chave, resultado): linear scan from first via next; stops
\* at the first cell whose key matches, or at cursor -1.
RECURSIVE pesquisaDe(_, _, _, _)
pesquisaDe(f, atual, chave, passos) ==
    IF atual = -1 THEN [achou |-> FALSE, pos |-> -1, trava |-> FALSE]
    ELSE IF passos = 0 THEN [achou |-> FALSE, pos |-> atual, trava |-> TRUE]
    ELSE LET resultado == f.nos[atual]
         IN IF resultado.chave = chave
            THEN [achou |-> TRUE, pos |-> atual, trava |-> FALSE]
            ELSE pesquisaDe(f, resultado.next, chave, passos - 1)

\* Mutant of pesquisa: the scan starts at last instead of first.
pesquisa_doFim(f, chave) == pesquisaDe(f, f.cab.last, chave, Passos(f))

pesquisa(f, chave) == pesquisaDe(f, f.cab.first, chave, Passos(f))

\* ----------------------------------------------------------------- append
\* Mutant of cabInserir: last is not moved to the new cell.
cabInserir_semLast(cab, free) ==
    cabecalho(cab.quant + 1,
              IF cab.first = -1 THEN cab.free ELSE cab.first,
              cab.last, free, cab.tam)

\* Mutant of cabInserir: first is set to the new cell on every insert.
cabInserir_sempreFirst(cab, free) ==
    cabecalho(cab.quant + 1, cab.free, cab.free, free, cab.tam)

\* Mutant of cabInserir: free is not advanced to the saved successor.
cabInserir_semFree(cab, free) ==
    cabecalho(cab.quant + 1,
              IF cab.first = -1 THEN cab.free ELSE cab.first,
              cab.free, cab.free, cab.tam)

\* inserir's header update: first only when the list was empty, last is
\* the new cell, free the saved successor, quant incremented.
cabInserir(cab, free) ==
    cabecalho(cab.quant + 1,
              IF cab.first = -1 THEN cab.free ELSE cab.first,
              cab.free, free, cab.tam)

\* Mutant of anexa: the new cell's prev is left at -1.
anexa_semPrev(f, d) ==
    LET cab  == f.cab
        s0   == inicio(f)
        free == f.nos[cab.free].next
        l    == lista(-1, -1, d.chave, d.nome)
        s1   == IF cab.last # -1
                THEN escreveNo(s0, cab.last,
                               [s0.arq.nos[cab.last] EXCEPT !.next = cab.free])
                ELSE s0
        s2   == escreveNo(s1, cab.free, l)
    IN fim(escreveCab(s2, cabInserir(cab, free)), "ok", FALSE)

\* Mutant of anexa: the record is also stamped on the old tail.
anexa_regNoUltimo(f, d) ==
    LET cab  == f.cab
        s0   == inicio(f)
        free == f.nos[cab.free].next
        l    == lista(-1, cab.last, d.chave, d.nome)
        s1   == IF cab.last # -1
                THEN escreveNo(s0, cab.last,
                               lista(cab.free, s0.arq.nos[cab.last].prev,
                                     d.chave, d.nome))
                ELSE s0
        s2   == escreveNo(s1, cab.free, l)
    IN fim(escreveCab(s2, cabInserir(cab, free)), "ok", FALSE)

\* inserir past its two checks: take the free head, link it after the old
\* tail, write it, rewrite the header.
anexa(f, d) ==
    LET cab  == f.cab
        s0   == inicio(f)
        free == f.nos[cab.free].next
        l    == lista(-1, cab.last, d.chave, d.nome)
        s1   == IF cab.last # -1
                THEN escreveNo(s0, cab.last,
                               [s0.arq.nos[cab.last] EXCEPT !.next = cab.free])
                ELSE s0
        s2   == escreveNo(s1, cab.free, l)
    IN fim(escreveCab(s2, cabInserir(cab, free)), "ok", FALSE)

\* Mutant of inserir: the return after "Chave ja existente" is missing.
inserir_semReturn(f, d) ==
    LET p == pesquisa(f, d.chave)
    IN IF p.trava THEN fim(inicio(f), "trava", FALSE)
       ELSE IF f.cab.free = -1 THEN fim(inicio(f), "cheio", FALSE)
       ELSE IF ~Existe(f, f.cab.free) THEN fim(inicio(f), "ok", TRUE)
       ELSE IF p.achou THEN [anexa(f, d) EXCEPT !.res = "dup"]
       ELSE anexa(f, d)

\* Mutant of inserir: the free-list check comes before the key check.
inserir_cheioAntes(f, d) ==
    LET p == pesquisa(f, d.chave)
    IN IF p.trava THEN fim(inicio(f), "trava", FALSE)
       ELSE IF f.cab.free = -1 THEN fim(inicio(f), "cheio", FALSE)
       ELSE IF p.achou THEN fim(inicio(f), "dup", FALSE)
       ELSE IF ~Existe(f, f.cab.free) THEN fim(inicio(f), "ok", TRUE)
       ELSE anexa(f, d)

\* inserir(arq, d).  res names the branch taken:
\*   "dup"   : "Erro: Chave ja existente!"
\*   "cheio" : "Erro: Arquivo cheio!"
\*   "ok"    : ran to the header write
\* io: the read of the free cell hit end of file; failbit is set and every
\* later seekp/write of the call is a no-op.
inserir(f, d) ==
    LET p == pesquisa(f, d.chave)
    IN IF p.trava THEN fim(inicio(f), "trava", FALSE)
       ELSE IF p.achou THEN fim(inicio(f), "dup", FALSE)
       ELSE IF f.cab.free = -1 THEN fim(inicio(f), "cheio", FALSE)
       ELSE IF ~Existe(f, f.cab.free) THEN fim(inicio(f), "ok", TRUE)
       ELSE anexa(f, d)

\* ---------------------------------------------------------- sorted insert
\* The scan of inserirOrdenado: stops at the first cell whose key is
\* strictly greater than chave, or at -1; anterior is the cell before it.
\* Mutant of procura: the comparison is reversed.
RECURSIVE procura_menor(_, _, _, _, _)
procura_menor(f, atual, anterior_pos, chave, passos) ==
    IF atual = -1 THEN [atual |-> -1, anterior_pos |-> anterior_pos, trava |-> FALSE]
    ELSE IF passos = 0 THEN [atual |-> atual, anterior_pos |-> anterior_pos, trava |-> TRUE]
    ELSE LET l == f.nos[atual]
         IN IF l.chave < chave
            THEN [atual |-> atual, anterior_pos |-> anterior_pos, trava |-> FALSE]
            ELSE procura_menor(f, l.next, atual, chave, passos - 1)

RECURSIVE procura(_, _, _, _, _)
procura(f, atual, anterior_pos, chave, passos) ==
    IF atual = -1 THEN [atual |-> -1, anterior_pos |-> anterior_pos, trava |-> FALSE]
    ELSE IF passos = 0 THEN [atual |-> atual, anterior_pos |-> anterior_pos, trava |-> TRUE]
    ELSE LET l == f.nos[atual]
         IN IF l.chave > chave
            THEN [atual |-> atual, anterior_pos |-> anterior_pos, trava |-> FALSE]
            ELSE procura(f, l.next, atual, chave, passos - 1)

\* Mutant of encaixa: the head case leaves header.first at the old head.
encaixa_semFirst(f, d) ==
    LET cab  == f.cab
        s0   == inicio(f)
        free == f.nos[cab.free].next
        novo == lista(-1, -1, d.chave, d.nome)
    IN
    IF cab.first = -1
    THEN \* empty list
         LET s1 == escreveNo(s0, cab.free, novo)
         IN fim(escreveCab(s1, cabecalho(cab.quant + 1, cab.free, cab.free,
                                          free, cab.tam)), "ok", FALSE)
    ELSE
    LET q == procura(f, cab.first, -1, d.chave, Passos(f))
    IN
    IF q.trava THEN fim(s0, "trava", FALSE)
    ELSE IF q.atual = cab.first
    THEN \* insert at the head
         LET s1 == escreveNo(s0, cab.first,
                             [s0.arq.nos[cab.first] EXCEPT !.prev = cab.free])
             s2 == escreveNo(s1, cab.free, [novo EXCEPT !.next = cab.first])
         IN fim(escreveCab(s2, cabecalho(cab.quant + 1, cab.first, cab.last,
                                          free, cab.tam)), "ok", FALSE)
    ELSE IF q.atual = -1
    THEN \* insert at the tail
         LET s1 == escreveNo(s0, cab.last,
                             [s0.arq.nos[cab.last] EXCEPT !.next = cab.free])
             s2 == escreveNo(s1, cab.free, [novo EXCEPT !.prev = cab.last])
         IN fim(escreveCab(s2, cabecalho(cab.quant + 1, cab.first, cab.free,
                                          free, cab.tam)), "ok", FALSE)
    ELSE \* insert in the middle
         LET s1 == escreveNo(s0, q.anterior_pos,
                             [s0.arq.nos[q.anterior_pos] EXCEPT !.next = cab.free])
             s2 == escreveNo(s1, q.atual,
                             [s1.arq.nos[q.atual] EXCEPT !.prev = cab.free])
             s3 == escreveNo(s2, cab.free,
                             [novo EXCEPT !.prev = q.anterior_pos, !.next = q.atual])
         IN fim(escreveCab(s3, cabecalho(cab.quant + 1, cab.first, cab.last,
                                          free, cab.tam)), "ok", FALSE)

\* inserirOrdenado past its two checks: take the free head and splice it
\* in (empty list / head / tail / middle), write it, rewrite the header.
encaixa(f, d) ==
    LET cab  == f.cab
        s0   == inicio(f)
        free == f.nos[cab.free].next
        novo == lista(-1, -1, d.chave, d.nome)
    IN
    IF cab.first = -1
    THEN \* empty list
         LET s1 == escreveNo(s0, cab.free, novo)
         IN fim(escreveCab(s1, cabecalho(cab.quant + 1, cab.free, cab.free,
                                          free, cab.tam)), "ok", FALSE)
    ELSE
    LET q == procura(f, cab.first, -1, d.chave, Passos(f))
    IN
    IF q.trava THEN fim(s0, "trava", FALSE)
    ELSE IF q.atual = cab.first
    THEN \* insert at the head
         LET s1 == escreveNo(s0, cab.first,
                             [s0.arq.nos[cab.first] EXCEPT !.prev = cab.free])
             s2 == escreveNo(s1, cab.free, [novo EXCEPT !.next = cab.first])
         IN fim(escreveCab(s2, cabecalho(cab.quant + 1, cab.free, cab.last,
                                          free, cab.tam)), "ok", FALSE)
    ELSE IF q.atual = -1
    THEN \* insert at the tail
         LET s1 == escreveNo(s0, cab.last,
                             [s0.arq.nos[cab.last] EXCEPT !.next = cab.free])
             s2 == escreveNo(s1, cab.free, [novo EXCEPT !.prev = cab.last])
         IN fim(escreveCab(s2, cabecalho(cab.quant + 1, cab.first, cab.free,
                                          free, cab.tam)), "ok", FALSE)
    ELSE \* insert in the middle
         LET s1 == escreveNo(s0, q.anterior_pos,
                             [s0.arq.nos[q.anterior_pos] EXCEPT !.next = cab.free])
             s2 == escreveNo(s1, q.atual,
                             [s1.arq.nos[q.atual] EXCEPT !.prev = cab.free])
             s3 == escreveNo(s2, cab.free,
                             [novo EXCEPT !.prev = q.anterior_pos, !.next = q.atual])
         IN fim(escreveCab(s3, cabecalho(cab.quant + 1, cab.first, cab.last,
                                          free, cab.tam)), "ok", FALSE)

\* Mutant of inserirOrdenado: the "Arquivo cheio" check is missing, so a
\* full file sends the read to cursor -1.
inserirOrdenado_semCheio(f, d) ==
    LET p == pesquisa(f, d.chave)
    IN IF p.trava THEN fim(inicio(f), "trava", FALSE)
       ELSE IF p.achou THEN fim(inicio(f), "dup", FALSE)
       ELSE IF ~Existe(f, f.cab.free) THEN fim(inicio(f), "ok", TRUE)
       ELSE encaixa(f, d)

\* inserirOrdenado(arq, d): res and io as for inserir
inserirOrdenado(f, d) ==
    LET p == pesquisa(f, d.chave)
    IN IF p.trava THEN fim(inicio(f), "trava", FALSE)
       ELSE IF p.achou THEN fim(inicio(f), "dup", FALSE)
       ELSE IF f.cab.free = -1 THEN fim(inicio(f), "cheio", FALSE)
       ELSE IF ~Existe(f, f.cab.free) THEN fim(inicio(f), "ok", TRUE)
       ELSE encaixa(f, d)

\* ----------------------------------------------------------------- delete
\* Mutant of liberado: the freed cell is not chained to the old free head.
liberado_semNext(cab) == lista(-1, -1, -1, LIVRE)

\* The cell remover writes back for the node it frees.
liberado(cab) == lista(cab.free, -1, -1, LIVRE)

\* Mutant of cabRemover: quant is not decremented.
cabRemover_semQuant(cab, first1, last1, atual) ==
    cabecalho(cab.quant,
              IF cab.quant = 0 THEN -1 ELSE first1,
              IF cab.quant = 0 THEN -1 ELSE last1,
              atual, cab.tam)

\* Mutant of cabRemover: free is not moved to the freed cell.
cabRemover_semFree(cab, first1, last1, atual) ==
    cabecalho(cab.quant - 1,
              IF cab.quant - 1 = 0 THEN -1 ELSE first1,
              IF cab.quant - 1 = 0 THEN -1 ELSE last1,
              cab.free, cab.tam)

\* remover's header update: free is the freed cell, quant decremented,
\* first and last forced to -1 when quant reaches 0.
cabRemover(cab, first1, last1, atual) ==
    cabecalho(cab.quant - 1,
              IF cab.quant - 1 = 0 THEN -1 ELSE first1,
              IF cab.quant - 1 = 0 THEN -1 ELSE last1,
              atual, cab.tam)

\* Mutant of desliga: the predecessor's next is not rewritten.
desliga_semAnterior(f, atual) ==
    LET cab == f.cab
        l   == f.nos[atual]
        s1  == inicio(f)
        first1 == IF l.prev # -1 THEN cab.first ELSE l.next
        s2  == IF l.next # -1
               THEN escreveNo(s1, l.next, [s1.arq.nos[l.next] EXCEPT !.prev = l.prev])
               ELSE s1
        last1 == IF l.next # -1 THEN cab.last ELSE l.prev
        s3  == escreveNo(s2, atual, liberado(cab))
    IN fim(escreveCab(s3, cabRemover(cab, first1, last1, atual)), "sim", FALSE)

\* Mutant of desliga: the header is rewritten before the freed cell.
desliga_cabAntes(f, atual) ==
    LET cab == f.cab
        l   == f.nos[atual]
        s0  == inicio(f)
        s1  == IF l.prev # -1
               THEN escreveNo(s0, l.prev, [s0.arq.nos[l.prev] EXCEPT !.next = l.next])
               ELSE s0
        first1 == IF l.prev # -1 THEN cab.first ELSE l.next
        s2  == IF l.next # -1
               THEN escreveNo(s1, l.next, [s1.arq.nos[l.next] EXCEPT !.prev = l.prev])
               ELSE s1
        last1 == IF l.next # -1 THEN cab.last ELSE l.prev
        s3  == escreveCab(s2, cabRemover(cab, first1, last1, atual))
    IN fim(escreveNo(s3, atual, liberado(cab)), "sim", FALSE)

\* Mutant of firstSolto: a removed head leaves cab.first where it was.
firstSolto_semElse(f, atual) == f.cab.first

\* cab.cabecalho.first as the unsplice step leaves it: the removed cell's
\* successor when the cell had no predecessor, untouched otherwise.
firstSolto(f, atual) ==
    IF f.nos[atual].prev # -1 THEN f.cab.first ELSE f.nos[atual].next

\* cab.cabecalho.last as the unsplice step leaves it: the removed cell's
\* predecessor when the cell had no successor, untouched otherwise.
lastSolto(f, atual) ==
    IF f.nos[atual].next # -1 THEN f.cab.last ELSE f.nos[atual].prev

\* The body of remover's loop once the cell at atual holds the key:
\* unsplice it, push it on the free chain, rewrite the header.
desliga(f, atual) ==
    LET cab == f.cab
        l   == f.nos[atual]
        s0  == inicio(f)
        s1  == IF l.prev # -1
               THEN escreveNo(s0, l.prev, [s0.arq.nos[l.prev] EXCEPT !.next = l.next])
               ELSE s0
        first1 == firstSolto(f, atual)
        s2  == IF l.next # -1
               THEN escreveNo(s1, l.next, [s1.arq.nos[l.next] EXCEPT !.prev = l.prev])
               ELSE s1
        last1 == lastSolto(f, atual)
        s3  == escreveNo(s2, atual, liberado(cab))
    IN fim(escreveCab(s3, cabRemover(cab, first1, last1, atual)), "sim", FALSE)

\* Mutant of removerDe: the header is rewritten with quant decremented
\* before the scan result is known.
RECURSIVE removerDe_escreve(_, _, _, _)
removerDe_escreve(f, atual, chave, passos) ==
    IF atual = -1
    THEN fim(escreveCab(inicio(f), [f.cab EXCEPT !.quant = @ - 1]), "nao", FALSE)
    ELSE IF passos = 0 THEN fim(inicio(f), "trava", FALSE)
    ELSE LET l == f.nos[atual]
         IN IF l.chave = chave
            THEN desliga(f, atual)
            ELSE removerDe_escreve(f, l.next, chave, passos - 1)

\* remover's scan: from atual via next until the key matches or -1.
RECURSIVE removerDe(_, _, _, _)
removerDe(f, atual, chave, passos) ==
    IF atual = -1 THEN fim(inicio(f), "nao", FALSE)
    ELSE IF passos = 0 THEN fim(inicio(f), "trava", FALSE)
    ELSE LET l == f.nos[atual]
         IN IF l.chave = chave
            THEN desliga(f, atual)
            ELSE removerDe(f, l.next, chave, passos - 1)

\* remover(arq, chave): "sim" = returned true, "nao" = returned false
remover(f, chave) == removerDe(f, f.cab.first, chave, Passos(f))

\* ------------------------------------------------------------ free walk
\* imprimirFree's loop: from pos via next until -1, one read per cell.  A
\* read at a cursor outside the file fails (io) and leaves l unassigned,
\* so the walk from there on is indeterminate.
RECURSIVE livresDe(_, _, _)
livresDe(f, pos, passos) ==
    IF pos = -1 THEN [lidas |-> 0, io |-> FALSE, trava |-> FALSE]
    ELSE IF passos = 0 THEN [lidas |-> 0, io |-> FALSE, trava |-> TRUE]
    ELSE IF ~Existe(f, pos) THEN [lidas |-> 1, io |-> TRUE, trava |-> FALSE]
    ELSE LET w == livresDe(f, f.nos[pos].next, passos - 1)
         IN [w EXCEPT !.lidas = @ + 1]

\* Mutant of imprimirFree: the walk starts at first instead of free.
imprimirFree_doFirst(f) == livresDe(f, f.cab.first, Passos(f))

\* imprimirFree(arq): lidas = cells read, trava = the loop does not end
imprimirFree(f) == livresDe(f, f.cab.free, Passos(f))

\* ------------------------------------------------------------- the program
\* nIns counts the successful inserts since format for as long as no
\* delete has succeeded (it is 0 afterwards); it stops at TetoIns.
TetoIns == MaxCap + 1

Nenhum == "-"

\* History kept beside the program state, for the properties:
\*   mapa       : key -> name of the record a successful insert stored and no
\*                successful delete has removed since (Nenhum otherwise)
\*   soOrdenado : no inserir call has stored a record since format
\*   removeu    : some remover call has returned true since format
\*   nIns       : see TetoIns
\* After inicializar(arq, n) on a fresh file (main, first run).
Init ==
    /\ \E n \in Capacidades, g \in Lixo : arq = inicializar(n, g)
    /\ falhou = FALSE
    /\ ult = [op |-> "inicializar", res |-> "ok"]
    /\ mapa = [k \in Chaves |-> Nenhum]
    /\ soOrdenado = TRUE
    /\ nIns = 0
    /\ removeu = FALSE

\* What the caller sees when the stream already has failbit set: every
\* read leaves its buffer untouched, so the branch taken depends on
\* indeterminate stack bytes, and no write reaches the file.
ResIndef(op) ==
    CASE op \in {"inserir", "inserirOrdenado"} -> {"ok", "dup", "cheio", "trava"}
      [] op = "remover" -> {"sim", "nao", "trava"}
      [] op = "pesquisa" -> {"sim", "nao", "trava"}
      [] op = "imprimirFree" -> {"ok", "trava"}

Falho(op) ==
    /\ falhou
    /\ \E r \in ResIndef(op) : ult' = [op |-> op, res |-> r]
    /\ UNCHANGED <<arq, falhou, mapa, soOrdenado, nIns, removeu>>

\* menu option 1
OpInserir ==
    \E k \in Chaves, nm \in Nomes :
       \/ Falho("inserir")
       \/ /\ ~falhou
          /\ LET r  == inserir(arq, dados(k, nm))
                 ok == r.res = "ok" /\ ~r.io
             IN /\ arq' = r.arq
                /\ falhou' = r.io
                /\ ult' = [op |-> "inserir", res |-> r.res]
                /\ mapa' = IF ok THEN [mapa EXCEPT ![k] = nm] ELSE mapa
                /\ soOrdenado' = IF ok THEN FALSE ELSE soOrdenado
                /\ nIns' = IF ok /\ ~removeu /\ nIns < TetoIns THEN nIns + 1 ELSE nIns
                /\ UNCHANGED removeu

\* menu option 2
OpInserirOrdenado ==
    \E k \in Chaves, nm \in Nomes :
       \/ Falho("inserirOrdenado")
       \/ /\ ~falhou
          /\ LET r  == inserirOrdenado(arq, dados(k, nm))
                 ok == r.res = "ok" /\ ~r.io
             IN /\ arq' = r.arq
                /\ falhou' = r.io
                /\ ult' = [op |-> "inserirOrdenado", res |-> r.res]
                /\ mapa' = IF ok THEN [mapa EXCEPT ![k] = nm] ELSE mapa
                /\ nIns' = IF ok /\ ~removeu /\ nIns < TetoIns THEN nIns + 1 ELSE nIns
                /\ UNCHANGED <<soOrdenado, removeu>>

\* menu option 3
OpRemover ==
    \E k \in Chaves :
       \/ Falho("remover")
       \/ /\ ~falhou
          /\ LET r == remover(arq, k)
             IN /\ arq' = r.arq
                /\ ult' = [op |-> "remover", res |-> r.res]
                /\ mapa' = IF r.res = "sim" THEN [mapa EXCEPT ![k] = Nenhum] ELSE mapa
                /\ removeu' = (removeu \/ r.res = "sim")
                /\ nIns' = IF r.res = "sim" THEN 0 ELSE nIns
                /\ UNCHANGED <<falhou, soOrdenado>>

\* menu option 4
OpPesquisa ==
    \E k \in Chaves :
       \/ Falho("pesquisa")
       \/ /\ ~falhou
          /\ LET p == pesquisa(arq, k)
             IN ult' = [op |-> "pesquisa",
                        res |-> IF p.trava THEN "trava"
                                ELSE IF p.achou THEN "sim" ELSE "nao"]
          /\ UNCHANGED <<arq, falhou, mapa, soOrdenado, nIns, removeu>>

\* menu option 7
OpImprimirFree ==
    \/ Falho("imprimirFree")
    \/ /\ ~falhou
       /\ LET w == imprimirFree(arq)
          IN /\ falhou' = w.io
             /\ \E r \in (IF w.io THEN ResIndef("imprimirFree")
                           ELSE IF w.trava THEN {"trava"} ELSE {"ok"}) :
                   ult' = [op |-> "imprimirFree", res |-> r]
       /\ UNCHANGED <<arq, mapa, soOrdenado, nIns, removeu>>

Next ==
    OpInserir \/ OpInserirOrdenado \/ OpRemover \/ OpPesquisa \/ OpImprimirFree

Spec == Init /\ [][Next]_vars

\* ============================================================ properties
\* The cursors met following campo ("next" or "prev") from pos until -1,
\* a cursor outside the file, or passos cells.
RECURSIVE caminho(_, _, _, _)
caminho(f, pos, campo, passos) ==
    IF pos = -1 \/ passos = 0 THEN <<>>
    ELSE IF ~Existe(f, pos) THEN <<pos>>
    ELSE <<pos>> \o caminho(f, f.nos[pos][campo], campo, passos - 1)

Ativos(f)    == caminho(f, f.cab.first, "next", Passos(f))
AtivosRev(f) == caminho(f, f.cab.last, "prev", Passos(f))
Livres(f)    == caminho(f, f.cab.free, "next", Passos(f))

Elems(sq) == {sq[i] : i \in 1..Len(sq)}
SemRepeticao(sq) == Cardinality(Elems(sq)) = Len(sq)
Inverso(sq) == [i \in 1..Len(sq) |-> sq[Len(sq) + 1 - i]]

\* keys along the active chain, front to back
ChavesAtivas(f) ==
    LET a == Ativos(f) IN [i \in 1..Len(a) |-> f.nos[a[i]].chave]

\* some cell of the active chain holds k
Ativa(f, k) == \E i \in 1..Len(ChavesAtivas(f)) : ChavesAtivas(f)[i] = k

Insercoes == {"inserir", "inserirOrdenado"}

\* C1: with capacity >= 1, next from first visits exactly quant distinct
\* cells, the last of them is header.last and its next is -1; prev from
\* last visits the same cells in reverse order, ending at header.first,
\* whose prev is -1.
C1_CadeiaAtiva ==
    arq.cab.tam >= 1 =>
        LET a == Ativos(arq)
            r == AtivosRev(arq)
        IN /\ Len(a) = arq.cab.quant
           /\ Elems(a) \subseteq DOMAIN arq.nos
           /\ SemRepeticao(a)
           /\ r = Inverso(a)
           /\ a # <<>> => /\ a[Len(a)] = arq.cab.last
                          /\ arq.nos[a[Len(a)]].next = -1
                          /\ r[Len(r)] = arq.cab.first
                          /\ arq.nos[r[Len(r)]].prev = -1

\* a chain of three built by both inserts, after a delete, whose link order
\* differs from the physical order
C1_Witness ==
    /\ arq.cab.quant = 3
    /\ removeu /\ ~soOrdenado
    /\ ult = [op |-> "inserirOrdenado", res |-> "ok"]
    /\ Ativos(arq) # <<1, 2, 3>>

\* C2: with capacity >= 1, the cursors reachable from first and those
\* reachable from free are disjoint and together are exactly 1..tam.
C2_Particao ==
    arq.cab.tam >= 1 =>
        /\ Elems(Ativos(arq)) \cap Elems(Livres(arq)) = {}
        /\ Elems(Ativos(arq)) \cup Elems(Livres(arq)) = 1..arq.cab.tam

\* a delete has pushed a cell on a free chain that is no longer ascending
C2_Witness ==
    /\ ult = [op |-> "remover", res |-> "sim"]
    /\ arq.cab.quant >= 1
    /\ Len(Livres(arq)) >= 2
    /\ Livres(arq)[1] > Livres(arq)[2]

\* C3: quant = 0 exactly when first = -1 and last = -1.
C3_VaziaSse ==
    (arq.cab.quant = 0) <=> (arq.cab.first = -1 /\ arq.cab.last = -1)

\* the list is empty again after deleting its last record
C3_Witness ==
    /\ ult = [op |-> "remover", res |-> "sim"]
    /\ arq.cab.quant = 0
    /\ arq.cab.tam >= 2

\* C4: with capacity >= 1, free = -1 exactly when quant = tam.
C4_CheiaSse ==
    arq.cab.tam >= 1 => ((arq.cab.free = -1) <=> (arq.cab.quant = arq.cab.tam))

\* the file is full again after a delete
C4_Witness ==
    /\ removeu
    /\ arq.cab.free = -1
    /\ arq.cab.tam >= 2
    /\ ult.op \in Insercoes /\ ult.res = "ok"

\* C5: no two cells of the active chain hold the same key, and both
\* inserts answer "dup" for a key an active cell holds.
C5_ChaveUnica ==
    LET ks == ChavesAtivas(arq)
    IN /\ \A i, j \in 1..Len(ks) : i # j => ks[i] # ks[j]
       /\ ~falhou =>
            \A i \in 1..Len(ks), nm \in Nomes :
               /\ inserir(arq, dados(ks[i], nm)).res = "dup"
               /\ inserirOrdenado(arq, dados(ks[i], nm)).res = "dup"

\* a duplicate was rejected by one insert while records stored by the
\* other are active
C5_Witness ==
    /\ ult = [op |-> "inserirOrdenado", res |-> "dup"]
    /\ ~soOrdenado
    /\ arq.cab.quant >= 2

\* C6: while every record stored since format was stored by
\* inserirOrdenado, the keys along the active chain are strictly increasing.
C6_Ordenada ==
    soOrdenado =>
        LET ks == ChavesAtivas(arq)
        IN \A i \in 1..(Len(ks) - 1) : ks[i] < ks[i + 1]

\* three records stored by inserirOrdenado alone, after a delete, the
\* smallest key not in the first cell
C6_Witness ==
    /\ soOrdenado /\ removeu
    /\ arq.cab.quant = 3
    /\ ult = [op |-> "inserirOrdenado", res |-> "ok"]
    /\ arq.cab.first # 1

\* C7: every record stored by a successful insert and not since removed by
\* a successful delete of its key is found by pesquisa, with its key and
\* the name it was stored with.
C7_PesquisaAcha ==
    \A k \in Chaves :
        mapa[k] # Nenhum =>
            LET p == pesquisa(arq, k)
            IN /\ p.achou
               /\ arq.nos[p.pos].chave = k
               /\ arq.nos[p.pos].nome = mapa[k]

\* two records stored with different names are still found after the
\* delete of a third
C7_Witness ==
    /\ ult = [op |-> "remover", res |-> "sim"]
    /\ ~soOrdenado
    /\ \E k1, k2 \in Chaves : mapa[k1] = "A" /\ mapa[k2] = "B"

Erros == {"dup", "cheio"}

\* C8: an insert that answers "dup" or "cheio" issues no write and leaves
\* the header and every cell as they were.
C8_FalhaNaoEscreve ==
    ~falhou =>
        \A k \in Chaves, nm \in Nomes :
            LET r1 == inserir(arq, dados(k, nm))
                r2 == inserirOrdenado(arq, dados(k, nm))
            IN /\ r1.res \in Erros => (r1.ws = <<>> /\ r1.arq = arq)
               /\ r2.res \in Erros => (r2.ws = <<>> /\ r2.arq = arq)

\* a duplicate was just rejected on a file that still has free cells
C8_Witness ==
    /\ ult = [op |-> "inserir", res |-> "dup"]
    /\ arq.cab.free # -1
    /\ arq.cab.quant >= 2

C10_RemoverAusente ==
    ~falhou =>
        \A k \in Chaves :
            ~Ativa(arq, k) =>
                LET r == remover(arq, k)
                IN r.res = "nao" /\ r.ws = <<>> /\ r.arq = arq

\* remover has just returned false on a list that holds other keys
C10_Witness ==
    /\ ult = [op |-> "remover", res |-> "nao"]
    /\ arq.cab.quant >= 2

\* C11: a cell's key is -1 exactly when the cell is on the free chain, so
\* no cell of the active chain holds key -1.
C11_Sentinela ==
    \A i \in DOMAIN arq.nos :
        (arq.nos[i].chave = -1) <=> (i \in Elems(Livres(arq)))

\* C12: right after inicializar(n), n >= 0, the header is {0, -1, -1, n}
\* and the free chain from header.free is 1, 2, ..., n and then -1, each of
\* them a cell of the file with key -1 and prev -1.
C12_AposInicializar ==
    ult.op = "inicializar" =>
        /\ arq.cab.quant = 0 /\ arq.cab.first = -1 /\ arq.cab.last = -1
        /\ arq.cab.tam \in Capacidades
        /\ Livres(arq) = [i \in 1..arq.cab.tam |-> i]
        /\ \A i \in Elems(Livres(arq)) :
              /\ Existe(arq, i)
              /\ arq.nos[i].chave = -1
              /\ arq.nos[i].prev = -1

\* a call that ran to its header write on a working stream
Sucesso(r) == r.res \in {"ok", "sim"} /\ ~r.io

\* sq with x put at position p (1..Len(sq)+1)
Insere(sq, p, x) ==
    [i \in 1..(Len(sq) + 1) |->
        IF i < p THEN sq[i] ELSE IF i = p THEN x ELSE sq[i - 1]]

\* sq without its element at position p
Retira(sq, p) ==
    [i \in 1..(Len(sq) - 1) |-> IF i < p THEN sq[i] ELSE sq[i + 1]]

\* C13: a successful inserir makes the new cell the tail: header.last is
\* the allocated cursor (the old free head), that cell has next -1 and prev
\* the old header.last, the keys along the chain are the old ones followed
\* by the new key, and header.first changes only if the list was empty.
C13_InserirNoFim ==
    ~falhou =>
        \A k \in Chaves, nm \in Nomes :
            LET r == inserir(arq, dados(k, nm))
                novo == arq.cab.free
            IN Sucesso(r) =>
                 /\ r.arq.cab.last = novo
                 /\ r.arq.nos[novo] = lista(-1, arq.cab.last, k, nm)
                 /\ Ativos(r.arq) = Append(Ativos(arq), novo)
                 /\ ChavesAtivas(r.arq) = Append(ChavesAtivas(arq), k)
                 /\ (r.arq.cab.first # arq.cab.first) => arq.cab.quant = 0

\* inserir has just appended to a chain of two, into a cell a delete had
\* freed, with a key smaller than its predecessor's
C13_Witness ==
    /\ ult = [op |-> "inserir", res |-> "ok"]
    /\ removeu
    /\ arq.cab.quant = 3
    /\ arq.cab.last # 3
    /\ arq.nos[arq.cab.last].chave < arq.nos[arq.nos[arq.cab.last].prev].chave

\* position of the first cell of the active chain holding k (0 if none)
PosDe(f, k) ==
    LET ks == ChavesAtivas(f)
        S  == {i \in 1..Len(ks) : ks[i] = k}
    IN IF S = {} THEN 0 ELSE CHOOSE i \in S : \A j \in S : i <= j

\* C14: a remover that returns true removes exactly the cell holding the
\* key: the chain is the old one without that cell, the other keys in the
\* same order, quant is one less, and the freed cursor is header.free
\* with next = the old header.free, prev = -1 and key = -1.
C14_RemoverRetira ==
    ~falhou =>
        \A k \in Chaves :
            LET r == remover(arq, k)
                p == PosDe(arq, k)
            IN Sucesso(r) =>
                 /\ p >= 1
                 /\ ChavesAtivas(r.arq) = Retira(ChavesAtivas(arq), p)
                 /\ Ativos(r.arq) = Retira(Ativos(arq), p)
                 /\ r.arq.cab.quant = arq.cab.quant - 1
                 /\ r.arq.cab.free = Ativos(arq)[p]
                 /\ r.arq.nos[r.arq.cab.free].next = arq.cab.free
                 /\ r.arq.nos[r.arq.cab.free].prev = -1
                 /\ r.arq.nos[r.arq.cab.free].chave = -1

\* remover has just taken cell 2 out of a full file of three, leaving two
\* records and a free chain of that one cell
C14_Witness ==
    /\ ult = [op |-> "remover", res |-> "sim"]
    /\ arq.cab.quant = 2
    /\ arq.cab.tam = 3
    /\ arq.nos[arq.cab.free].next = -1
    /\ arq.cab.free = 2

\* C15: with capacity >= 1, an insert of a key that is not active stores
\* the record whenever quant < tam, and an insert answers "cheio" only
\* when quant = tam.
C15_NenhumaPerdida ==
    (arq.cab.tam >= 1 /\ ~falhou) =>
        \A k \in Chaves, nm \in Nomes :
            \A r \in {inserir(arq, dados(k, nm)), inserirOrdenado(arq, dados(k, nm))} :
               /\ (~Ativa(arq, k) /\ arq.cab.quant < arq.cab.tam) =>
                     (Sucesso(r) /\ Ativa(r.arq, k)
                        /\ r.arq.cab.quant = arq.cab.quant + 1)
               /\ r.res = "cheio" => arq.cab.quant = arq.cab.tam

\* a file of three full again after a delete, the last record stored by
\* inserirOrdenado at the head, in cell 3
C15_Witness ==
    /\ ult = [op |-> "inserirOrdenado", res |-> "ok"]
    /\ removeu
    /\ arq.cab.tam = 3 /\ arq.cab.quant = 3
    /\ arq.cab.first = 3

\* where inserirOrdenado puts key k: the position of the first cell in
\* chain order whose key is strictly greater, or one past the tail
LugarDe(f, k) ==
    LET ks == ChavesAtivas(f)
        S  == {i \in 1..Len(ks) : ks[i] > k}
    IN IF S = {} THEN Len(ks) + 1 ELSE CHOOSE i \in S : \A j \in S : i <= j

\* the keys along the chain are strictly increasing
Crescente(f) ==
    \A i \in 1..(Len(ChavesAtivas(f)) - 1) :
        ChavesAtivas(f)[i] < ChavesAtivas(f)[i + 1]

C17_PilhaLivre ==
    ~falhou =>
        /\ \A k \in Chaves, nm \in Nomes :
             \A r \in {inserir(arq, dados(k, nm)), inserirOrdenado(arq, dados(k, nm))} :
                Sucesso(r) =>
                   /\ r.arq.nos[arq.cab.free].chave = k
                   /\ r.arq.nos[arq.cab.free].nome = nm
                   /\ r.arq.cab.free = arq.nos[arq.cab.free].next
        /\ \A k \in Chaves :
             LET rd == remover(arq, k)
             IN Sucesso(rd) =>
                  LET solto == Ativos(arq)[PosDe(arq, k)]
                  IN \A k2 \in Chaves, nm \in Nomes :
                       \A ri \in {inserir(rd.arq, dados(k2, nm)),
                                  inserirOrdenado(rd.arq, dados(k2, nm))} :
                          Sucesso(ri) =>
                             /\ ri.arq.nos[solto].chave = k2
                             /\ ri.arq.nos[solto].nome = nm
                             /\ ri.arq.cab.free = arq.cab.free

\* an insert has just reused cell 1, which a delete had released while
\* cells 2 and 3 stayed active and nothing else was free
C17_Witness ==
    /\ ult.op \in Insercoes /\ ult.res = "ok"
    /\ removeu
    /\ arq.cab.tam = 3 /\ arq.cab.free = -1
    /\ arq.cab.last = 1
    /\ arq.cab.first = 2

\* every call the caller can make on file f that changes it: the results
\* of the successful inserir, inserirOrdenado and remover calls
Mutacoes(f) ==
    {r \in {inserir(f, dados(k, nm)) : k \in Chaves, nm \in Nomes}
           \cup {inserirOrdenado(f, dados(k, nm)) : k \in Chaves, nm \in Nomes}
           \cup {remover(f, k) : k \in Chaves} : Sucesso(r)}

\* the cursor a successful call allocates or releases
CelulaDe(f, r) == IF r.res = "ok" THEN f.cab.free ELSE r.arq.cab.free

\* C18: a successful inserir, inserirOrdenado or remover writes the header
\* exactly once, as its last write, after the write of the new or released
\* cell and of every relinked neighbour.
C18_CabPorUltimo ==
    ~falhou =>
        \A r \in Mutacoes(arq) :
            LET n == Len(r.ws)
            IN /\ n >= 2
               /\ r.ws[n].pos = 0
               /\ r.ws[n].cel = r.arq.cab
               /\ \A i \in 1..(n - 1) : r.ws[i].pos \in DOMAIN arq.nos
               /\ \E i \in 1..(n - 1) : r.ws[i].pos = CelulaDe(arq, r)
               /\ \A i \in DOMAIN arq.nos :
                     r.arq.nos[i] # arq.nos[i] => \E j \in 1..(n - 1) : r.ws[j].pos = i

\* remover has just taken a cell out of a chain of three: neighbour
\* relinks, the released cell, then the header
C18_Witness ==
    /\ ult = [op |-> "remover", res |-> "sim"]
    /\ arq.cab.quant = 2
    /\ arq.nos[arq.cab.first].next = arq.cab.last
    /\ arq.cab.free \notin {arq.cab.first, arq.cab.last}
    /\ arq.cab.first # 1

\* file f after the first j writes of the log ws
RECURSIVE Aplica(_, _, _)
Aplica(f, ws, j) ==
    IF j = 0 THEN f
    ELSE LET g == Aplica(f, ws, j - 1)
             w == ws[j]
         IN IF w.pos = 0 THEN [g EXCEPT !.cab = w.cel]
            ELSE [g EXCEPT !.nos[w.pos] = w.cel]

\* index of the first header write of ws (Len(ws) + 1 if there is none)
PosCab(ws) ==
    LET S == {i \in 1..Len(ws) : ws[i].pos = 0}
    IN IF S = {} THEN Len(ws) + 1 ELSE CHOOSE i \in S : \A j \in S : i <= j

\* the (key, name) records read from header.first via next until -1
Registros(f) ==
    LET a == Ativos(f)
    IN [i \in 1..Len(a) |->
          IF Existe(f, a[i]) THEN <<f.nos[a[i]].chave, f.nos[a[i]].nome>>
          ELSE <<a[i]>>]

\* call r, stopped at any point before its header write, leaves the
\* records read from header.first as they were on f
Ausente(f, r) ==
    \A j \in 0..(PosCab(r.ws) - 1) : Registros(Aplica(f, r.ws, j)) = Registros(f)

C20_DupAntesDeCheio ==
    (~falhou /\ arq.cab.free = -1) =>
        \A k \in Chaves, nm \in Nomes :
            Ativa(arq, k) =>
               /\ inserir(arq, dados(k, nm)).res = "dup"
               /\ inserirOrdenado(arq, dados(k, nm)).res = "dup"

\* a duplicate has just been refused on a full file of three
C20_Witness ==
    /\ ult = [op |-> "inserir", res |-> "dup"]
    /\ arq.cab.free = -1
    /\ arq.cab.quant = 3

\* C21: whenever a successful remover call brings quant to 0, the unsplice
\* step has already left cab.first = -1 and cab.last = -1, so the forced
\* assignment under "quant == 0" changes nothing.
C21_NormalizacaoRedundante ==
    \A k \in Chaves :
        LET r == remover(arq, k)
            p == pesquisa(arq, k)
        IN (r.res = "sim" /\ r.arq.cab.quant = 0) =>
              /\ p.achou
              /\ firstSolto(arq, p.pos) = -1
              /\ lastSolto(arq, p.pos) = -1

\* A delete has just emptied a file of capacity >= 2 that had been filled
\* and partly emptied before, so the freed cell was not cell 1 of a fresh
\* chain.
C21_Witness ==
    /\ ~falhou /\ ult = [op |-> "remover", res |-> "sim"]
    /\ arq.cab.tam >= 2 /\ arq.cab.quant = 0
    /\ arq.cab.free # 1

\* What menu option 4 can answer for key k in the current state: the
\* result of pesquisa on the file, or any outcome once the stream has
\* failbit set and the header read leaves cab unassigned.
ResPesquisa(k) ==
    IF falhou THEN ResIndef("pesquisa")
    ELSE LET p == pesquisa(arq, k)
         IN {IF p.trava THEN "trava" ELSE IF p.achou THEN "sim" ELSE "nao"}

\* keys the abstract map holds
Dominio == {k \in Chaves : mapa[k] # Nenhum}

\* The file refines mapa: a search for k answers found exactly when mapa
\* holds k, the cell it stops at carries k and the name mapa gives it, and
\* quant is the number of keys mapa holds, between 0 and tam.
RefinaMapa ==
    /\ \A k \in Chaves :
          /\ \A r \in ResPesquisa(k) : (r = "sim") <=> (k \in Dominio)
          /\ (~falhou /\ pesquisa(arq, k).achou) =>
                 /\ arq.nos[pesquisa(arq, k).pos].chave = k
                 /\ arq.nos[pesquisa(arq, k).pos].nome = mapa[k]
    /\ arq.cab.quant = Cardinality(Dominio)
    /\ 0 <= arq.cab.quant /\ arq.cab.quant <= arq.cab.tam

\* C22: after format and any sequence of inserir, inserirOrdenado and
\* remover calls, search(k) answers found with name p exactly when the
\* abstract map, updated by each successful insert and delete, holds
\* k -> p, and quant is the size of that map, with 0 <= quant <= tam.
C22_RefinaMapa == RefinaMapa

\* The same refinement on files formatted with at least one cell.
RefinaComCelulas == arq.cab.tam >= 1 => RefinaMapa

\* the cell a successful call links (insert) or unlinks (delete), as it
\* stands in the chain: after the call for an insert, before it for a delete
Elo(f, r) ==
    IF r.res = "ok" THEN r.arq.nos[CelulaDe(f, r)] ELSE f.nos[CelulaDe(f, r)]

\* C23: a successful inserir, inserirOrdenado or remover leaves tam and
\* the set of cells as they were and, apart from the header and the cell it
\* allocates or releases, changes nothing but the next field of that
\* cell's predecessor and the prev field of its successor, both cells of
\* the active chain; every other field of every other cell, key and name
\* included, is as before.
C23_SoVizinhos ==
    \A r \in Mutacoes(arq) :
        LET c == CelulaDe(arq, r)
            e == Elo(arq, r)
        IN /\ r.arq.cab.tam = arq.cab.tam
           /\ DOMAIN r.arq.nos = DOMAIN arq.nos
           /\ c \in DOMAIN arq.nos
           /\ \A i \in DOMAIN arq.nos \ {c} :
                 /\ r.arq.nos[i].chave = arq.nos[i].chave
                 /\ r.arq.nos[i].nome = arq.nos[i].nome
                 /\ r.arq.nos[i].next # arq.nos[i].next =>
                        (i = e.prev /\ i \in Elems(Ativos(arq)))
                 /\ r.arq.nos[i].prev # arq.nos[i].prev =>
                        (i = e.next /\ i \in Elems(Ativos(arq)))
           /\ Cardinality({i \in DOMAIN arq.nos \ {c} :
                               r.arq.nos[i] # arq.nos[i]}) <= 2

\* three inserirOrdenado calls and no other insert or delete since
\* format: the third took cell 3 and linked it between cells 1 and 2, so
\* both neighbours were rewritten
C23_Witness ==
    /\ ult = [op |-> "inserirOrdenado", res |-> "ok"]
    /\ soOrdenado /\ ~removeu /\ nIns = 3
    /\ Ativos(arq) = <<1, 3, 2>>

\* Cells read by a scan loop that starts at atual, follows next and
\* leaves at cursor -1 or at the first cell whose key is in Para: pesquisa
\* and remover leave on the key sought, inserirOrdenado on a larger key.
RECURSIVE lidas(_, _, _, _)
lidas(f, atual, Para, passos) ==
    IF atual = -1 \/ passos = 0 THEN 0
    ELSE IF ~Existe(f, atual) THEN 1
    ELSE IF f.nos[atual].chave \in Para THEN 1
    ELSE 1 + lidas(f, f.nos[atual].next, Para, passos - 1)

Maiores(k) == {c \in Chaves : c > k}

\* Every loop ends: each scan for each key reads at most quant cells, no
\* call or menu answer is a loop that does not return, the free walk
\* reads exactly tam - quant cells and none outside the file, and both
\* chains are made of distinct cursors of 1..tam.
Termina ==
    /\ \A k \in Chaves :
          /\ ~pesquisa(arq, k).trava
          /\ remover(arq, k).res # "trava"
          /\ \A nm \in Nomes : inserirOrdenado(arq, dados(k, nm)).res # "trava"
          /\ lidas(arq, arq.cab.first, {k}, Passos(arq)) <= arq.cab.quant
          /\ lidas(arq, arq.cab.first, Maiores(k), Passos(arq)) <= arq.cab.quant
    /\ ult.res # "trava"
    /\ LET w == imprimirFree(arq)
       IN /\ ~w.trava /\ ~w.io
          /\ w.lidas = arq.cab.tam - arq.cab.quant
    /\ Elems(Ativos(arq)) \subseteq 1..arq.cab.tam
    /\ Elems(Livres(arq)) \subseteq 1..arq.cab.tam
    /\ SemRepeticao(Ativos(arq)) /\ SemRepeticao(Livres(arq))

\* C24: every operation terminates in every reachable state: the scans
\* of pesquisa, inserirOrdenado and remover read at most quant cells, the
\* walk from header.free reaches -1 after exactly tam - quant cells, and
\* neither chain has a cycle or a cursor outside 1..tam.
C24_Termina == Termina

\* The same on files formatted with at least one cell.
TerminaComCelulas == arq.cab.tam >= 1 => Termina

====
